---- MODULE Spec2Model ----
(***************************************************************************)
(* CustomSamlClient (io-spid-commons): the request/response correlation    *)
(* protocol around the correlation cache.                                  *)
(*                                                                         *)
(* generateAuthorizeRequest and validatePostResponse are callback chains   *)
(* that suspend at every asynchronous call (the SAML library, the          *)
(* tamperer, the pre-validation hook, the cache).  Each invocation is a    *)
(* small process; one action is one resumption of its chain.  Invocations  *)
(* interleave freely and share the cache.                                  *)
(***************************************************************************)
EXTENDS Integers, Sequences, FiniteSets, TLC

VARIABLES
    cfg,      \* the constructor's optional collaborators
    cache,    \* the correlation cache: request id -> entry, or Absent
    gar,      \* generateAuthorizeRequest invocations
    vpr,      \* validatePostResponse invocations
    lollipop, \* the key-binding header pairs the callers send
    util      \* the call of a function of utils/saml under way

vars == <<cfg, cache, gar, vpr, lollipop, util>>

-----------------------------------------------------------------------------
(* Bounds *)

MaxGar == 2      \* generateAuthorizeRequest invocations
MaxVpr == 2      \* validatePostResponse invocations

GarIds == 1..MaxGar
VprIds == 1..MaxVpr

\* The request id is the ID attribute the SAML library writes into the XML
\* it generates; the library draws it fresh for every request, so the id of
\* invocation g is g.  NoRequestId is a falsy AuthnRequestID.
RequestIds  == GarIds
NoRequestId == 0

-----------------------------------------------------------------------------
(* Values *)

Undefined == [undefined |-> TRUE]     \* an argument not passed
Null      == [null |-> TRUE]
Absent    == [absent |-> TRUE]        \* no cache entry under the key

NoError        == "null"
UndefinedFlag  == "undefined"         \* loggedOut not passed

Truthy(v) == v \notin {Undefined, Null}

\* What the validator's profile can look like.
Users == { [name |-> "Jane"] }

\* What a requestMapper can decode from a request.
ExtraParams == { [clientId |-> "42"], [name |-> "Bob"] }

\* t.Validation<T>: a decoding failure or the decoded value.
MapperResults ==
    { [ok |-> FALSE] } \cup { [ok |-> TRUE, value |-> e] : e \in ExtraParams }

BookkeepingKeys == {"RequestXML", "createdAt", "idpIssuer"}

-----------------------------------------------------------------------------
(* Key-binding headers *)

AbsentHeader == "undefined"

\* x-pagopa-lollipop-pub-key: absent, not a JWK token, a JWK token.
PubKeyHeaders == {AbsentHeader, "not-a-jwk", "jwk-token"}

\* x-pagopa-lollipop-pub-key-hash-algo: absent, unsupported, supported.
HashAlgoHeaders == {AbsentHeader, "md5", "sha256", "sha512"}

LollipopHeaders == [pubKey : PubKeyHeaders, hashAlgo : HashAlgoHeaders]

NoHeaders == [pubKey |-> AbsentHeader, hashAlgo |-> AbsentHeader]

\* LollipopHashAlgorithm: the supported algorithms.
LollipopHashAlgorithms == {"sha256", "sha384", "sha512"}

\* hashAlgorithm: undefined, the tamperer then uses its default.
NoHashAlgorithm == "undefined"

\* JwkPublicKeyFromToken.decode
DecodeJwk(header) ==
    IF header = "jwk-token"
    THEN [ok |-> TRUE, value |-> [kty |-> "EC"]]
    ELSE [ok |-> FALSE]

\* A lookup that lets an unsupported algorithm through.
LollipopParams_KeepsAnyAlgorithm(headers) ==
    LET key == DecodeJwk(headers.pubKey)
    IN  IF key.ok
        THEN [hashAlgorithm |-> headers.hashAlgo, pubKey |-> key.value]
        ELSE Undefined

\* The second argument of the tamperer: the decoded public key with the
\* hash algorithm if it is a supported one, or undefined without a key.
LollipopParams(headers) ==
    LET key == DecodeJwk(headers.pubKey)
    IN  IF key.ok
        THEN [hashAlgorithm |->
                  IF headers.hashAlgo \in LollipopHashAlgorithms
                  THEN headers.hashAlgo ELSE NoHashAlgorithm,
              pubKey |-> key.value]
        ELSE Undefined

-----------------------------------------------------------------------------
(* XML, as far as the client looks into it *)

\* The XML super.generateAuthorizeRequest hands to its callback.
GeneratedXml(id) == [ID |-> id, tampered |-> FALSE]

\* The XML the configured tamperer resolves to.
TamperedXml(xml) == [ID |-> xml.ID, tampered |-> TRUE]

-----------------------------------------------------------------------------
(* The cache provider (IExtendedCacheProvider) *)

\* save: the entry built from the XML, the config and the extra parameters.
CacheEntry(xml, extraParams) ==
    LET extra == IF Truthy(extraParams) THEN extraParams ELSE <<>>
        keys  == BookkeepingKeys \cup DOMAIN extra
    IN  [k \in keys |->
            IF k = "RequestXML" THEN xml
            ELSE IF k = "createdAt" THEN "now"
            ELSE IF k = "idpIssuer" THEN "https://idp.example/"
            ELSE extra[k]]

CacheSave(c, xml, extraParams) ==
    [c EXCEPT ![xml.ID] = CacheEntry(xml, extraParams)]

\* get: the entry, or not found.
CacheGet(c, id) == c[id]

\* remove: idempotent.
CacheRemove(c, id) == [c EXCEPT ![id] = Absent]

-----------------------------------------------------------------------------
(* Callback invocations are recorded in call order. *)

XmlCall(err, xml)         == [err |-> err, xml |-> xml]
UserCall(err, user, lo)   == [err |-> err, user |-> user, loggedOut |-> lo]

-----------------------------------------------------------------------------
(* Initial state *)

GarInit ==
    [pc |-> "idle", req |-> Undefined, genRes |-> "none", xml |-> Undefined,
     nTamper |-> 0, tamperRes |-> "none", lollipopParams |-> Undefined,
     nSave |-> 0, saveRes |-> "none", saved |-> Undefined,
     savedExtra |-> Undefined, cb |-> <<>>]

VprInit ==
    [pc |-> "idle", herr |-> NoError, isValid |-> FALSE, rid |-> NoRequestId,
     vdone |-> FALSE, verr |-> NoError, vuser |-> Undefined,
     vlo |-> UndefinedFlag,
     nValidator |-> 0, nGet |-> 0, nRemove |-> 0,
     getRes |-> "none", remRes |-> "none", extra |-> Undefined,
     consumedBefore |-> {}, cb |-> <<>>]

\* No function of utils/saml is being called.
NoCall == [fn |-> "none"]

\* The client at rest, in any configuration.
ClientInit ==
    /\ cfg \in [hasTamperer : BOOLEAN, hasMapper : BOOLEAN, hasHook : BOOLEAN]
    /\ cache = [id \in RequestIds |-> Absent]
    /\ gar = [g \in GarIds |-> GarInit]
    /\ vpr = [p \in VprIds |-> VprInit]
    /\ util = NoCall

\* Callers that send no key-binding headers.
Init ==
    /\ ClientInit
    /\ lollipop = {NoHeaders}

\* Callers that send any combination of key-binding headers.
InitLollipop ==
    /\ ClientInit
    /\ lollipop = LollipopHeaders

-----------------------------------------------------------------------------
(* generateAuthorizeRequest *)

\* The originating request, as far as the client reads it: what the
\* requestMapper (if any) decodes from it, and its key-binding headers.
Requests == [mapped : MapperResults, headers : lollipop]

\* The third argument of save: the mapper's output, or undefined when there
\* is no mapper or it fails to decode.
MapperOutput(req) ==
    IF cfg.hasMapper /\ req.mapped.ok THEN req.mapped.value ELSE Undefined

GarCallback(g, err, xml) ==
    [gar[g] EXCEPT !.pc = "done", !.cb = Append(@, XmlCall(err, xml))]

\* The call: newCallback is built and handed to the SAML library.
GarStart(g) ==
    /\ gar[g].pc = "idle"
    /\ \E req \in Requests :
          gar' = [gar EXCEPT ![g] = [@ EXCEPT !.pc = "generating", !.req = req]]
    /\ UNCHANGED <<lollipop, util, cfg, cache, vpr>>

\* A newCallback that hands whatever it got to the tamperer.
GarNewCallback_TampersAnything(g, e, xml) ==
    [gar[g] EXCEPT !.pc = "tampering", !.xml = xml, !.nTamper = @ + 1,
                   !.lollipopParams = LollipopParams(gar[g].req.headers)]

\* newCallback(e, xml) with a tamperer configured: tamper the XML if there
\* is one, else report e.
GarNewCallback(g, e, xml) ==
    IF Truthy(xml)
    THEN [gar[g] EXCEPT !.pc = "tampering", !.xml = xml, !.nTamper = @ + 1,
                        !.lollipopParams = LollipopParams(gar[g].req.headers)]
    ELSE GarCallback(g, e, Undefined)

\* The SAML library calls back: an error and no XML, or the generated XML.
\* Without a tamperer newCallback is the caller's callback itself.
GarGenerated(g) ==
    /\ gar[g].pc = "generating"
    /\ \E out \in { XmlCall("GenerateError", Undefined),
                    XmlCall(NoError, GeneratedXml(g)) } :
          gar' = [gar EXCEPT ![g] =
                    [(IF cfg.hasTamperer
                      THEN GarNewCallback(g, out.err, out.xml)
                      ELSE GarCallback(g, out.err, out.xml))
                        EXCEPT !.genRes = IF Truthy(out.xml) THEN "ok"
                                          ELSE out.err]]
    /\ UNCHANGED <<lollipop, util, cfg, cache, vpr>>

\* A shaper that reports a mapper's decoding failure instead of saving.
GarTamperSettled_PropagatesMapperFailure(g, ok) ==
    IF ok /\ (~cfg.hasMapper \/ gar[g].req.mapped.ok)
    THEN [gar[g] EXCEPT !.pc = "saving",
                        !.xml = TamperedXml(@),
                        !.savedExtra = MapperOutput(gar[g].req),
                        !.nSave = @ + 1]
    ELSE GarCallback(g, IF ok THEN "DecodeError" ELSE "TamperError", Undefined)

\* The tamperer settles.  Right: save is called with the tampered XML and
\* the mapper's output.  Left: the error goes to the callback.
GarTamperSettled(g, ok) ==
    IF ok
    THEN [gar[g] EXCEPT !.pc = "saving",
                        !.xml = TamperedXml(@),
                        !.savedExtra = MapperOutput(gar[g].req),
                        !.nSave = @ + 1]
    ELSE GarCallback(g, "TamperError", Undefined)

GarTampered(g) ==
    /\ gar[g].pc = "tampering"
    /\ \E ok \in BOOLEAN :
          gar' = [gar EXCEPT ![g] =
                    [GarTamperSettled(g, ok) EXCEPT
                        !.tamperRes = IF ok THEN "ok" ELSE "TamperError"]]
    /\ UNCHANGED <<lollipop, util, cfg, cache, vpr>>

\* A save whose failure is dropped: the tampered XML is delivered anyway.
GarSaveSettled_DeliversOnFailure(g, ok) ==
    GarCallback(g, NoError, gar[g].xml)

\* save settles.  Right(entry): the callback gets the entry's RequestXML.
\* Left: the callback gets the error alone.
GarSaveSettled(g, ok) ==
    IF ok
    THEN LET cached == CacheEntry(gar[g].xml, gar[g].savedExtra)
         IN  GarCallback(g, NoError, cached.RequestXML)
    ELSE GarCallback(g, "CacheWriteError", Undefined)

GarSaved(g) ==
    /\ gar[g].pc = "saving"
    /\ \E ok \in BOOLEAN :
          /\ gar' = [gar EXCEPT ![g] =
                       [GarSaveSettled(g, ok) EXCEPT
                           !.saveRes = IF ok THEN "ok" ELSE "CacheWriteError",
                           !.saved = IF ok
                                     THEN CacheEntry(gar[g].xml, gar[g].savedExtra)
                                     ELSE Undefined]]
          /\ cache' = IF ok
                      THEN CacheSave(cache, gar[g].xml, gar[g].savedExtra)
                      ELSE cache
    /\ UNCHANGED <<lollipop, util, cfg, vpr>>

-----------------------------------------------------------------------------
(* validatePostResponse *)

\* What the pre-validation hook can report: an error, or (isValid, id).
HookResults ==
    { [err |-> "HookError", isValid |-> FALSE, rid |-> NoRequestId] }
    \cup [err : {NoError}, isValid : BOOLEAN,
          rid : RequestIds \cup {NoRequestId}]

\* What the SAML library's validatePostResponse can report: an error, a
\* profile, or a logout response (no error, no profile, loggedOut).
ValidatorResults ==
    { UserCall("ValidationRejected", Undefined, UndefinedFlag),
      UserCall(NoError, Null, "true") }
    \cup { UserCall(NoError, u, "false") : u \in Users }

VprCallback(p, err, user, lo) ==
    [vpr[p] EXCEPT !.pc = "done", !.cb = Append(@, UserCall(err, user, lo))]

\* An invocation whose callback got a success after its entry was read.
Finalized(p) ==
    /\ vpr[p].getRes = "ok"
    /\ \E i \in DOMAIN vpr[p].cb : vpr[p].cb[i].err = NoError

\* The request ids consumed so far.
Consumed == { vpr[q].rid : q \in { r \in VprIds : Finalized(r) } }

\* A call that runs the hook path whether or not a hook is configured.
VprStart_AlwaysHook(p) ==
    /\ vpr[p].pc = "idle"
    /\ vpr' = [vpr EXCEPT ![p] =
                 [@ EXCEPT !.pc = "hook", !.consumedBefore = Consumed]]
    /\ UNCHANGED <<lollipop, util, cfg, cache, gar>>

\* The call: with a hook, the hook is invoked; without, the SAML library's
\* validator is invoked with the caller's callback.
VprStart(p) ==
    /\ vpr[p].pc = "idle"
    /\ vpr' = [vpr EXCEPT ![p] =
                 IF cfg.hasHook
                 THEN [@ EXCEPT !.pc = "hook", !.consumedBefore = Consumed]
                 ELSE [@ EXCEPT !.pc = "validator", !.nValidator = @ + 1,
                                !.consumedBefore = Consumed]]
    /\ UNCHANGED <<lollipop, util, cfg, cache, gar>>

\* A hook callback that goes on to the validator whatever the hook said.
VprHookCallback_IgnoresError(p, err, isValid, rid) ==
    [vpr[p] EXCEPT !.pc = "validator", !.nValidator = @ + 1,
                   !.isValid = isValid, !.rid = rid]

\* The hook's callback (err, isValid, AuthnRequestID).
VprHookCallback(p, err, isValid, rid) ==
    IF err # NoError
    THEN VprCallback(p, err, Undefined, UndefinedFlag)
    ELSE [vpr[p] EXCEPT !.pc = "validator", !.nValidator = @ + 1,
                        !.isValid = isValid, !.rid = rid]

VprHookDone(p) ==
    /\ vpr[p].pc = "hook"
    /\ \E h \in HookResults :
          vpr' = [vpr EXCEPT ![p] =
                    [VprHookCallback(p, h.err, h.isValid, h.rid)
                        EXCEPT !.herr = h.err]]
    /\ UNCHANGED <<lollipop, util, cfg, cache, gar>>

\* A condition that forgets the hook's verdict.
FinalizeCond_IgnoresIsValid(error, isValid, rid) ==
    error = NoError /\ rid # NoRequestId

\* The condition under which the entry is read, removed and merged.
FinalizeCond(error, isValid, rid) ==
    error = NoError /\ isValid /\ rid # NoRequestId

\* The callback (error, user, ___) given to the validator behind the hook.
VprValidatorCallback(p, error, user, lo) ==
    IF FinalizeCond(error, vpr[p].isValid, vpr[p].rid)
    THEN [vpr[p] EXCEPT !.pc = "get", !.nGet = @ + 1,
                        !.verr = error, !.vuser = user, !.vlo = lo]
    ELSE VprCallback(p, error, user, lo)

VprValidated(p) ==
    /\ vpr[p].pc = "validator"
    /\ \E v \in ValidatorResults :
          vpr' = [vpr EXCEPT ![p] =
                    [(IF cfg.hasHook
                      THEN VprValidatorCallback(p, v.err, v.user, v.loggedOut)
                      ELSE VprCallback(p, v.err, v.user, v.loggedOut))
                        EXCEPT !.vdone = TRUE, !.verr = v.err,
                               !.vuser = v.user, !.vlo = v.loggedOut]]
    /\ UNCHANGED <<lollipop, util, cfg, cache, gar>>

\* A destructuring that forgets to set createdAt aside.
StripBookkeeping_KeepsCreatedAt(cachedData) ==
    [k \in DOMAIN cachedData \ {"RequestXML", "idpIssuer"} |-> cachedData[k]]

\* const {RequestXML, createdAt, idpIssuer, ...extraLoginRequestParams}
StripBookkeeping(cachedData) ==
    [k \in DOMAIN cachedData \ BookkeepingKeys |-> cachedData[k]]

\* A chain without its mapLeft: a failed get ends the flow silently.
VprGetSettled_SwallowsFailure(p, res, cachedData) ==
    IF res = "ok"
    THEN [vpr[p] EXCEPT !.pc = "remove", !.nRemove = @ + 1,
                        !.extra = StripBookkeeping(cachedData)]
    ELSE [vpr[p] EXCEPT !.pc = "done"]

\* get settles: "ok", "NotFound" or "CacheReadError".  Right(cachedData):
\* the extra parameters are kept and remove is called.  Left: the error
\* goes to the callback.
VprGetSettled(p, res, cachedData) ==
    IF res = "ok"
    THEN [vpr[p] EXCEPT !.pc = "remove", !.nRemove = @ + 1,
                        !.extra = StripBookkeeping(cachedData)]
    ELSE VprCallback(p, res, Undefined, UndefinedFlag)

VprGot(p) ==
    /\ vpr[p].pc = "get"
    /\ \E fails \in BOOLEAN :
          LET found == CacheGet(cache, vpr[p].rid)
              res   == IF fails THEN "CacheReadError"
                       ELSE IF found = Absent THEN "NotFound" ELSE "ok"
          IN  vpr' = [vpr EXCEPT ![p] =
                        [VprGetSettled(p, res, found) EXCEPT !.getRes = res]]
    /\ UNCHANGED <<lollipop, util, cfg, cache, gar>>

\* A merge that builds an object even when there is no user.
MergeUser_Fabricates(user, extraLoginRequestParams) ==
    LET fields == IF Truthy(user) THEN user ELSE <<>>
    IN  [k \in DOMAIN fields \cup {"extraLoginRequestParams"} |->
            IF k = "extraLoginRequestParams"
            THEN extraLoginRequestParams ELSE fields[k]]

\* A merge that spreads the extra parameters over the user's own fields.
MergeUser_Flat(user, extraLoginRequestParams) ==
    IF Truthy(user)
    THEN [k \in DOMAIN user \cup DOMAIN extraLoginRequestParams |->
             IF k \in DOMAIN extraLoginRequestParams
             THEN extraLoginRequestParams[k] ELSE user[k]]
    ELSE user

\* user ? { ...user, extraLoginRequestParams } : user
MergeUser(user, extraLoginRequestParams) ==
    IF Truthy(user)
    THEN [k \in DOMAIN user \cup {"extraLoginRequestParams"} |->
             IF k = "extraLoginRequestParams"
             THEN extraLoginRequestParams ELSE user[k]]
    ELSE user

\* A chain that delivers the user although remove failed.
VprRemoveSettled_IgnoresFailure(p, ok) ==
    VprCallback(p, vpr[p].verr,
                MergeUser(vpr[p].vuser, vpr[p].extra), vpr[p].vlo)

\* remove settles.  Right: the callback gets the validator's result with
\* the merged user.  Left: the callback gets the error alone.
VprRemoveSettled(p, ok) ==
    IF ok
    THEN VprCallback(p, vpr[p].verr,
                     MergeUser(vpr[p].vuser, vpr[p].extra), vpr[p].vlo)
    ELSE VprCallback(p, "CacheDeleteError", Undefined, UndefinedFlag)

\* A chain without its chainFirst: remove is never issued.
VprRemoveEffect_Skipped(p, ok) == cache

\* The cache after remove has settled.
VprRemoveEffect(p, ok) ==
    IF ok THEN CacheRemove(cache, vpr[p].rid) ELSE cache

VprRemoved(p) ==
    /\ vpr[p].pc = "remove"
    /\ \E ok \in BOOLEAN :
          /\ vpr' = [vpr EXCEPT ![p] =
                       [VprRemoveSettled(p, ok) EXCEPT
                           !.remRes = IF ok THEN "ok" ELSE "CacheDeleteError"]]
          /\ cache' = VprRemoveEffect(p, ok)
    /\ UNCHANGED <<lollipop, util, cfg, gar>>

-----------------------------------------------------------------------------
(* Specification *)

Next ==
    \/ \E g \in GarIds : GarStart(g)
    \/ \E g \in GarIds : GarGenerated(g)
    \/ \E g \in GarIds : GarTampered(g)
    \/ \E g \in GarIds : GarSaved(g)
    \/ \E p \in VprIds : VprStart(p)
    \/ \E p \in VprIds : VprHookDone(p)
    \/ \E p \in VprIds : VprValidated(p)
    \/ \E p \in VprIds : VprGot(p)
    \/ \E p \in VprIds : VprRemoved(p)

Spec == Init /\ [][Next]_vars

\* Request generation alone: no response is ever handled.
NextGar ==
    \/ \E g \in GarIds : GarStart(g)
    \/ \E g \in GarIds : GarGenerated(g)
    \/ \E g \in GarIds : GarTampered(g)
    \/ \E g \in GarIds : GarSaved(g)

SpecGar == Init /\ [][NextGar]_vars

\* Request generation by callers that send key-binding headers.
SpecLollipop == InitLollipop /\ [][NextGar]_vars

-----------------------------------------------------------------------------
(* utils/saml: options of a request *)

MaxIdps == 2     \* identity providers in the strategy options

AbsentParam == "undefined"            \* a query parameter not given

Some(v) == [tag |-> "some", value |-> v]
None    == [tag |-> "none"]

\* { ...a, ...b }
Spread(a, b) ==
    [k \in DOMAIN a \cup DOMAIN b |-> IF k \in DOMAIN b THEN b[k] ELSE a[k]]

\* SPID_LEVELS: level name -> authentication-context URI.
SPID_LEVELS ==
    [SpidL1 |-> "https://www.spid.gov.it/SpidL1",
     SpidL2 |-> "https://www.spid.gov.it/SpidL2",
     SpidL3 |-> "https://www.spid.gov.it/SpidL3"]

\* SPID_URLS: the inverse table.
SPID_URLS ==
    [u \in { SPID_LEVELS[l] : l \in DOMAIN SPID_LEVELS } |->
        CHOOSE l \in DOMAIN SPID_LEVELS : SPID_LEVELS[l] = u]

\* lookup(k, r) of fp-ts/Record
Lookup(k, r) == IF k \in DOMAIN r THEN Some(r[k]) ELSE None

\* The authLevel query parameter: absent, the three levels, unmappable.
AuthLevels == {AbsentParam, "SpidL1", "SpidL2", "SpidL3", "SpidL9", ""}

\* The text of an element: its characters, with or without white space
\* around them.
Texts ==
    [padded : BOOLEAN,
     chars  : {"", "urn:unknown"} \cup { SPID_LEVELS[l] : l \in DOMAIN SPID_LEVELS }]

Trim(text) == text.chars

\* A non-empty textContent.
HasText(text) == text.padded \/ text.chars # ""

\* A decoded response, as far as it is read: its AuthnContextClassRef
\* elements.
Responses == [classRefs : {<<>>} \cup { <<t>> : t \in Texts }]

\* SAMLResponse as posted: the base64 encoding of a response.
Base64(response) == [base64 |-> response]

decodeBase64(s) == s.base64

\* req.body: none, or one with SAMLResponse.
Bodies == {Undefined} \cup { [SAMLResponse |-> Base64(r)] : r \in Responses }

\* The identity providers of the strategy options, in key order.
IdpNames == <<"idpA", "idpB", "idpC">>

IdpOf(name) ==
    [cert |-> <<name, "second">>, entryPoint |-> name]

\* ISpidStrategyOptions["idp"] with the first n providers.
Idps(n) ==
    [name \in { IdpNames[i] : i \in 1..n } |-> IdpOf(name)]

IdpOptions == { Idps(n) : n \in 0..MaxIdps }

\* The entityID query parameter: absent, a provider's, nobody's.
EntityIds == {AbsentParam, "idpA", "idpB", "idpX"}

\* spidStrategyOptions.sp
SpDefaults ==
    [issuer |-> "https://sp.example/",
     authnContext |-> "https://www.spid.gov.it/SpidL1",
     forceAuthn |-> FALSE]

UtilRequests ==
    [query : [entityID : EntityIds, authLevel : AuthLevels], body : Bodies]

RECURSIVE FlattenCerts(_, _)
\* flatten(collect(idps, (_, idp) => idp.cert)), from the i-th name on.
FlattenCerts(idps, i) ==
    IF i > Len(IdpNames) THEN <<>>
    ELSE (IF IdpNames[i] \in DOMAIN idps THEN idps[IdpNames[i]].cert ELSE <<>>)
         \o FlattenCerts(idps, i + 1)

\* getEntrypointCerts(req, idps)
getEntrypointCerts(req, idps) ==
    LET entityID == req.query.entityID
        matched  == IF entityID = AbsentParam THEN None
                    ELSE IF entityID \in DOMAIN idps
                    THEN Some([cert |-> idps[entityID].cert,
                               entryPoint |-> idps[entityID].entryPoint])
                    ELSE None
        all      == Some([cert |-> FlattenCerts(idps, 1), entryPoint |-> ""])
    IN  IF matched # None THEN matched ELSE all

\* getAuthnContextValueFromResponse(response)
getAuthnContextValueFromResponse(response) ==
    IF Len(response.classRefs) > 0 /\ HasText(response.classRefs[1])
    THEN Some(Trim(response.classRefs[1]))
    ELSE None

\* A resolver that asks for re-authentication at every level.
getAuthSalmOptions_AlwaysForces(req, decodedResponse) ==
    IF req.query.authLevel \in DOMAIN SPID_LEVELS
    THEN Some([authnContext |-> SPID_LEVELS[req.query.authLevel],
               forceAuthn |-> TRUE])
    ELSE None

\* A resolver that ends at an unmappable authLevel.
getAuthSalmOptions_StopsAtSelector(req, decodedResponse) ==
    LET authLevel == req.query.authLevel
        context   == IF decodedResponse = Undefined THEN None
                     ELSE getAuthnContextValueFromResponse(decodedResponse)
    IN  IF authLevel # AbsentParam
        THEN (IF authLevel \in DOMAIN SPID_LEVELS
              THEN Some([authnContext |-> SPID_LEVELS[authLevel],
                         forceAuthn |-> authLevel # "SpidL1"])
              ELSE None)
        ELSE IF context # None /\ context.value \in DOMAIN SPID_URLS
        THEN Some([authnContext |-> context.value,
                   forceAuthn |-> SPID_URLS[context.value] # "SpidL1"])
        ELSE None

\* getAuthSalmOptions(req, decodedResponse)
getAuthSalmOptions(req, decodedResponse) ==
    LET authLevel    == req.query.authLevel
        fromRequest  ==
            IF authLevel = AbsentParam THEN None
            ELSE LET found == Lookup(authLevel, SPID_LEVELS)
                 IN  IF found # None
                     THEN Some([authnContext |-> found.value,
                                forceAuthn |-> authLevel # "SpidL1"])
                     ELSE None
        context      ==
            IF decodedResponse = Undefined THEN None
            ELSE getAuthnContextValueFromResponse(decodedResponse)
        fromResponse ==
            IF context = None THEN None
            ELSE LET found == Lookup(context.value, SPID_URLS)
                 IN  IF found # None
                     THEN Some([authnContext |-> context.value,
                                forceAuthn |-> found.value # "SpidL1"])
                     ELSE None
    IN  IF fromRequest # None THEN fromRequest ELSE fromResponse

\* The response getSamlOptions decodes from the body, if any.
DecodedResponse(req) ==
    IF req.body # Undefined THEN decodeBase64(req.body.SAMLResponse)
    ELSE Undefined

\* getSamlOptions(req, done): the arguments done is called with.
getSamlOptions(req, idps) ==
    LET maybeEntrypointCerts == getEntrypointCerts(req, idps)
        entrypointCerts == IF maybeEntrypointCerts # None
                           THEN maybeEntrypointCerts.value ELSE <<>>
        maybeAuthOptions == getAuthSalmOptions(req, DecodedResponse(req))
        authOptions == IF maybeAuthOptions # None
                       THEN maybeAuthOptions.value ELSE <<>>
    IN  [err |-> NoError,
         options |-> Spread(Spread(SpDefaults, entrypointCerts), authOptions)]

-----------------------------------------------------------------------------
(* utils/saml: XML as xml2js reads and writes it *)

\* An XML document is written compactly (as generated) or indented (as the
\* Builder writes it).
Forms == {"compact", "indented"}

\* No attributes.
NoAttrs == [k \in {} |-> ""]

\* Values of a parsed object: strings as read, booleans and numbers as
\* assigned by the shapers.
Str(s)  == [string |-> s]
Bool(b) == [boolean |-> b]
Num(n)  == [number |-> n]

\* The text the Builder writes for a value.
Render(v) ==
    IF "string" \in DOMAIN v THEN v.string
    ELSE IF "boolean" \in DOMAIN v THEN (IF v.boolean THEN "true" ELSE "false")
    ELSE ToString(v.number)

\* a without the key k
Without(a, k) == [j \in DOMAIN a \ {k} |-> a[j]]

\* xml2js reads an element with no attribute and no content as '', one with
\* text only as that text, any other as an object with `$`.
ParseElement(el) ==
    IF DOMAIN el.attrs = {}
    THEN (IF el.text = "" THEN [kind |-> "empty"]
          ELSE [kind |-> "text", text |-> el.text])
    ELSE [kind |-> "node",
          attrs |-> [k \in DOMAIN el.attrs |-> Str(el.attrs[k])],
          text |-> el.text]

\* xmlBuilder.buildObject on one element
BuildElement(parsed) ==
    IF parsed.kind = "empty" THEN [attrs |-> NoAttrs, text |-> ""]
    ELSE IF parsed.kind = "text" THEN [attrs |-> NoAttrs, text |-> parsed.text]
    ELSE [attrs |-> [k \in DOMAIN parsed.attrs |-> Render(parsed.attrs[k])],
          text |-> parsed.text]

ParseAll(els) == [i \in 1..Len(els) |-> ParseElement(els[i])]

BuildAll(parsed) == [i \in 1..Len(parsed) |-> BuildElement(parsed[i])]

\* toError of what the steps throw
ParseError  == "Error: not well-formed"
TypeError   == "TypeError: cannot read properties of undefined"
NoKeyError  == "You must provide a private key to sign SPID service provider metadata."

Right(v) == [ok |-> TRUE, value |-> v]
Left(e)  == [ok |-> FALSE, error |-> e]

Malformed == [malformed |-> TRUE]

-----------------------------------------------------------------------------
(* utils/saml: the authorize request *)

MaxShapings == 2     \* times the tamperer is applied in a row

EntityFormat == "urn:oasis:names:tc:SAML:2.0:nameid-format:entity"

\* samlConfig.issuer
Issuers == {"https://sp.example/"}

\* Attributes a NameIDPolicy may carry.
PolicyAttrs ==
    { NoAttrs,
      [AllowCreate |-> "true"],
      [Format |-> "urn:oasis:names:tc:SAML:2.0:nameid-format:transient"],
      [AllowCreate |-> "true",
       Format |-> "urn:oasis:names:tc:SAML:2.0:nameid-format:transient"] }

\* Attributes an Issuer may carry.
IssuerAttrs ==
    { NoAttrs,
      [xmlns |-> "urn:oasis:names:tc:SAML:2.0:assertion"],
      [xmlns |-> "urn:oasis:names:tc:SAML:2.0:assertion",
       NameQualifier |-> "https://other.example/"],
      [NameQualifier |-> "https://sp.example/", Format |-> EntityFormat] }

\* Outbound requests: the root element, its NameIDPolicy and Issuer
\* children (none or one of each) and whether other children follow.
AuthnRequests ==
    [form   : Forms,
     root   : {"samlp:AuthnRequest", "samlp:LogoutRequest"},
     policy : {<<>>} \cup { <<[attrs |-> a, text |-> ""]>> : a \in PolicyAttrs },
     issuer : {<<>>} \cup { <<[attrs |-> a, text |-> "sp"]>> : a \in IssuerAttrs },
     others : BOOLEAN]

AuthorizeXmls == {Malformed} \cup AuthnRequests

\* parseStringPromise(generateXml)
parseAuthnRequest(xml) ==
    IF xml = Malformed THEN Left(ParseError)
    ELSE Right([root |-> xml.root,
                policy |-> ParseAll(xml.policy),
                issuer |-> ParseAll(xml.issuer),
                others |-> xml.others])

\* xmlBuilder.buildObject(objXml)
buildAuthnRequest(objXml) ==
    [form |-> "indented",
     root |-> objXml.root,
     policy |-> BuildAll(objXml.policy),
     issuer |-> BuildAll(objXml.issuer),
     others |-> objXml.others]

\* objXml[root][child][0].$ can be read.
HasAttrs(children) == Len(children) > 0 /\ children[1].kind = "node"

\* A recipe that skips what it cannot edit.
tamperAuthnRequest_Lenient(objXml, issuer) ==
    Right([objXml EXCEPT
        !.policy = IF HasAttrs(@)
                   THEN [@ EXCEPT ![1].attrs = Without(@, "AllowCreate")]
                   ELSE @,
        !.issuer = IF HasAttrs(@)
                   THEN [@ EXCEPT ![1].attrs =
                            Spread(@, [NameQualifier |-> Str(issuer),
                                       Format |-> Str(EntityFormat)])]
                   ELSE @])

\* The recipe of getAuthorizeRequestTamperer: three edits in order, each
\* throwing where the element or its `$` is missing.
tamperAuthnRequest(objXml, issuer) ==
    IF objXml.root # "samlp:AuthnRequest" THEN Left(TypeError)
    ELSE IF ~HasAttrs(objXml.policy) THEN Left(TypeError)
    ELSE IF ~HasAttrs(objXml.issuer) THEN Left(TypeError)
    ELSE Right([objXml EXCEPT
            !.policy[1].attrs = Without(@, "AllowCreate"),
            !.issuer[1].attrs = Spread(@, [NameQualifier |-> Str(issuer),
                                           Format |-> Str(EntityFormat)])])

\* getAuthorizeRequestTamperer(xmlBuilder, _, samlConfig)(generateXml)
getAuthorizeRequestTamperer(issuer, generateXml) ==
    LET objXml == parseAuthnRequest(generateXml)
    IN  IF ~objXml.ok THEN objXml
        ELSE LET shaped == tamperAuthnRequest(objXml.value, issuer)
             IN  IF ~shaped.ok THEN shaped
                 ELSE Right(buildAuthnRequest(shaped.value))

-----------------------------------------------------------------------------
(* utils/saml: the service-provider metadata *)

\* Attributes of the generated SPSSODescriptor.
SsoAttrs ==
    { [protocolSupportEnumeration |-> "urn:oasis:names:tc:SAML:2.0:protocol"],
      [protocolSupportEnumeration |-> "urn:oasis:names:tc:SAML:2.0:protocol",
       AuthnRequestsSigned |-> "true"],
      [protocolSupportEnumeration |-> "urn:oasis:names:tc:SAML:2.0:protocol",
       AuthnRequestsSigned |-> "false", WantAssertionsSigned |-> "false"] }

\* An AssertionConsumerService with the given index.
Acs(index) ==
    [attrs |-> [index |-> index, isDefault |-> "true"], text |-> ""]

\* The metadata as the SAML library generates it: an EntityDescriptor with
\* one SPSSODescriptor and one or two AssertionConsumerService children that
\* carry their attributes, with or without an AttributeConsumingService and
\* an Organization already in place.
Metadatas ==
    [form         : Forms,
     sso          : SsoAttrs,
     acs          : {<<Acs("1")>>, <<Acs("1"), Acs("2")>>},
     attrService  : {<<>>, <<[index |-> "7", name |-> "old", requested |-> <<>>]>>},
     organization : {<<>>, <<"old org">>}]

\* samlConfig and serviceProviderConfig, as far as the tamperer reads them.
MetadataConfigs ==
    [privateCert  : {AbsentParam, "", "private key"},
     attributeConsumingServiceIndex : {"0"},
     requiredAttributes : { [name |-> "Required attributes", attributes |-> a] :
                               a \in {<<>>, <<"name", "fiscalNumber">>} },
     organization : {Undefined, [name |-> "org"]}]

\* parseStringPromise(generateXml)
parseMetadata(xml) ==
    [sso |-> [k \in DOMAIN xml.sso |-> Str(xml.sso[k])],
     acs |-> ParseAll(xml.acs),
     attrService |-> xml.attrService,
     organization |-> xml.organization]

\* getSpidAttributesMetadata(serviceProviderConfig)
getSpidAttributesMetadata(config) ==
    [i \in 1..Len(config.requiredAttributes.attributes) |->
        config.requiredAttributes.attributes[i]]

\* getSpidOrganizationMetadata(serviceProviderConfig)
getSpidOrganizationMetadata(config) ==
    IF config.organization # Undefined
    THEN [organization |-> <<config.organization.name>>]
    ELSE <<>>

\* The recipe of getMetadataTamperer.
tamperMetadata(o, config) ==
    Spread(
        [o EXCEPT
            !.sso = Spread(@, [AuthnRequestsSigned |-> Bool(TRUE),
                               WantAssertionsSigned |-> Bool(TRUE)]),
            !.acs[1].attrs = Spread(@, [index |-> Num(0)]),
            !.attrService =
                <<[index |-> config.attributeConsumingServiceIndex,
                   name |-> config.requiredAttributes.name,
                   requested |-> getSpidAttributesMetadata(config)]>>],
        getSpidOrganizationMetadata(config))

\* xmlBuilder.buildObject(objXml)
buildMetadata(objXml) ==
    [form |-> "indented",
     sso |-> [k \in DOMAIN objXml.sso |-> Render(objXml.sso[k])],
     acs |-> BuildAll(objXml.acs),
     attrService |-> objXml.attrService,
     organization |-> objXml.organization]

\* A signing step that signs with whatever key it is given.
signMetadata_NoKeyCheck(xml, config) ==
    Right([signingKey |-> config.privateCert, metadata |-> xml])

\* The signing step: no key, no document.
signMetadata(xml, config) ==
    IF config.privateCert \in {AbsentParam, ""}
    THEN Left(NoKeyError)
    ELSE Right([signingKey |-> config.privateCert, metadata |-> xml])

\* getMetadataTamperer(xmlBuilder, serviceProviderConfig, samlConfig)(generateXml)
getMetadataTamperer(config, generateXml) ==
    signMetadata(buildMetadata(tamperMetadata(parseMetadata(generateXml), config)),
                 config)

-----------------------------------------------------------------------------
(* utils/saml: one call of one function *)

\* The calls: the function, its arguments, and what it has returned so far.
UtilCalls ==
    { [fn |-> "getAuthSalmOptions",
       args |-> [req |-> [query |-> [entityID |-> AbsentParam, authLevel |-> l],
                          body |-> Undefined],
                 decodedResponse |-> r],
       out |-> <<>>] : l \in AuthLevels, r \in {Undefined} \cup Responses }
    \cup
    { [fn |-> "getEntrypointCerts",
       args |-> [req |-> [query |-> [entityID |-> e, authLevel |-> AbsentParam],
                          body |-> Undefined],
                 idps |-> i],
       out |-> <<>>] : e \in EntityIds, i \in IdpOptions }
    \cup
    { [fn |-> "getSamlOptions", args |-> [req |-> r, idps |-> i], out |-> <<>>] :
        r \in UtilRequests, i \in IdpOptions }
    \cup
    { [fn |-> "getAuthorizeRequestTamperer",
       args |-> [issuer |-> i, generateXml |-> x],
       out |-> <<>>] : i \in Issuers, x \in AuthorizeXmls }
    \cup
    { [fn |-> "getMetadataTamperer",
       args |-> [config |-> c, generateXml |-> x],
       out |-> <<>>] : c \in MetadataConfigs, x \in Metadatas }

\* The client is not used; one function of utils/saml is about to be called.
InitUtils ==
    /\ cfg = [hasTamperer |-> TRUE, hasMapper |-> TRUE, hasHook |-> TRUE]
    /\ cache = [id \in RequestIds |-> Absent]
    /\ gar = [g \in GarIds |-> GarInit]
    /\ vpr = [p \in VprIds |-> VprInit]
    /\ lollipop = {NoHeaders}
    /\ util \in UtilCalls

CallGetAuthSalmOptions ==
    /\ util.fn = "getAuthSalmOptions"
    /\ util.out = <<>>
    /\ util' = [util EXCEPT !.out =
                   <<getAuthSalmOptions(util.args.req, util.args.decodedResponse)>>]
    /\ UNCHANGED <<cfg, cache, gar, vpr, lollipop>>

CallGetEntrypointCerts ==
    /\ util.fn = "getEntrypointCerts"
    /\ util.out = <<>>
    /\ util' = [util EXCEPT !.out =
                   <<getEntrypointCerts(util.args.req, util.args.idps)>>]
    /\ UNCHANGED <<cfg, cache, gar, vpr, lollipop>>

CallGetSamlOptions ==
    /\ util.fn = "getSamlOptions"
    /\ util.out = <<>>
    /\ util' = [util EXCEPT !.out =
                   <<getSamlOptions(util.args.req, util.args.idps)>>]
    /\ UNCHANGED <<cfg, cache, gar, vpr, lollipop>>

\* The tamperer applied to the generated XML, then again to what it returned.
CallAuthorizeRequestTamperer ==
    /\ util.fn = "getAuthorizeRequestTamperer"
    /\ Len(util.out) < MaxShapings
    /\ util.out # <<>> => util.out[Len(util.out)].ok
    /\ LET xml == IF util.out = <<>> THEN util.args.generateXml
                  ELSE util.out[Len(util.out)].value
       IN  util' = [util EXCEPT !.out =
                       Append(@, getAuthorizeRequestTamperer(util.args.issuer, xml))]
    /\ UNCHANGED <<cfg, cache, gar, vpr, lollipop>>

CallMetadataTamperer ==
    /\ util.fn = "getMetadataTamperer"
    /\ util.out = <<>>
    /\ util' = [util EXCEPT !.out =
                   <<getMetadataTamperer(util.args.config, util.args.generateXml)>>]
    /\ UNCHANGED <<cfg, cache, gar, vpr, lollipop>>

NextUtils ==
    \/ CallGetAuthSalmOptions
    \/ CallGetEntrypointCerts
    \/ CallGetSamlOptions
    \/ CallAuthorizeRequestTamperer
    \/ CallMetadataTamperer

SpecUtils == InitUtils /\ [][NextUtils]_vars

-----------------------------------------------------------------------------
(* Claims *)

Done(p)      == vpr[p].pc = "done"
Calls(p)     == vpr[p].cb
ErrorOnly(e) == <<UserCall(e, Undefined, UndefinedFlag)>>

\* The invocations that delivered a success built from request r's entry.
Consumers(r) == { p \in VprIds : Finalized(p) /\ vpr[p].rid = r }

\* C1: for every request id, whatever the interleaving of the invocations,
\* at most one validatePostResponse invocation delivers a success built
\* from that request's cache entry.
C1_AtMostOneConsumption ==
    \A r \in RequestIds : Cardinality(Consumers(r)) <= 1

\* C2: once an invocation has delivered a success for a request id, the
\* cache holds no entry under that id, and an invocation that starts
\* afterwards and reaches the finalize path with the same id finds no entry
\* (unless the read itself fails, its get reports not-found) and delivers
\* the failure alone, never a user.
C2_NoSecondConsumption ==
    \A p \in VprIds :
        /\ Finalized(p) => CacheGet(cache, vpr[p].rid) = Absent
        /\ (vpr[p].rid \in vpr[p].consumedBefore /\ vpr[p].getRes # "none")
              => /\ vpr[p].getRes \in {"NotFound", "CacheReadError"}
                 /\ Done(p)
                 /\ Calls(p) = ErrorOnly(vpr[p].getRes)

C2_Witness ==
    \E p, q \in VprIds :
        /\ p # q
        /\ Finalized(p)
        /\ vpr[q].rid = vpr[p].rid
        /\ vpr[q].rid \in vpr[q].consumedBefore
        /\ vpr[q].getRes = "NotFound"
        /\ Done(q)

\* C3: in every configuration, an XML string given to the callback of
\* generateAuthorizeRequest is the RequestXML of an entry whose save has
\* succeeded before.
C3_XmlOnlyAfterSave ==
    \A g \in GarIds : \A i \in DOMAIN gar[g].cb :
        Truthy(gar[g].cb[i].xml)
            => /\ gar[g].saveRes = "ok"
               /\ CacheGet(cache, g) # Absent
               /\ gar[g].cb[i].xml = gar[g].saved.RequestXML

\* C4: when the tamperer succeeded and the save failed, the callback is
\* invoked once, with the save's error and no XML, and save was called
\* only once.
C4_SaveFailureGivesErrorOnly ==
    \A g \in GarIds :
        gar[g].saveRes = "CacheWriteError"
            => /\ gar[g].pc = "done"
               /\ gar[g].cb = <<XmlCall("CacheWriteError", Undefined)>>
               /\ gar[g].nSave = 1
               /\ gar[g].nTamper = 1

C4_Witness ==
    \E g \in GarIds :
        /\ gar[g].saveRes = "CacheWriteError"
        /\ gar[g].xml = TamperedXml(GeneratedXml(g))
        /\ gar[g].pc = "done"

\* C5: on the finalize path, a failed get (a read error or no entry) or a
\* failed remove reaches the callback as its error with no user, and a
\* success is delivered only when both the get and the remove succeeded.
C5_FinalizeFailureGivesErrorOnly ==
    \A p \in VprIds :
        /\ vpr[p].getRes \in {"NotFound", "CacheReadError"}
              => /\ Done(p)
                 /\ Calls(p) = ErrorOnly(vpr[p].getRes)
                 /\ vpr[p].nRemove = 0
        /\ vpr[p].remRes = "CacheDeleteError"
              => /\ Done(p)
                 /\ Calls(p) = ErrorOnly("CacheDeleteError")
        /\ (vpr[p].nGet > 0 /\ \E i \in DOMAIN Calls(p) :
                                   Calls(p)[i].err = NoError)
              => vpr[p].getRes = "ok" /\ vpr[p].remRes = "ok"

C5_Witness ==
    \E p, q \in VprIds :
        /\ vpr[p].getRes = "CacheReadError" /\ Done(p)
        /\ vpr[q].remRes = "CacheDeleteError" /\ Done(q)

\* C6 (as claimed): every completed invocation has invoked its callback
\* exactly once, either with a user and no error or with an error and no
\* user.
C6_UserXorError ==
    \A p \in VprIds :
        /\ Len(Calls(p)) = (IF Done(p) THEN 1 ELSE 0)
        /\ Done(p) => (Calls(p)[1].err = NoError) = Truthy(Calls(p)[1].user)

\* C6 (amended): every completed invocation has invoked its callback
\* exactly once and an invocation under way not yet; the call never carries
\* both an error and a user, and it carries neither only when the validator
\* itself reported a success without a user.
C6_ExactlyOneOutcome ==
    \A p \in VprIds :
        /\ Len(Calls(p)) = (IF Done(p) THEN 1 ELSE 0)
        /\ Done(p) =>
              /\ ~(Calls(p)[1].err # NoError /\ Truthy(Calls(p)[1].user))
              /\ (Calls(p)[1].err = NoError /\ ~Truthy(Calls(p)[1].user))
                    => /\ vpr[p].vdone
                       /\ vpr[p].verr = NoError
                       /\ ~Truthy(vpr[p].vuser)

\* One invocation has delivered a merged user through the finalize path,
\* another has forwarded a logout response: no error and no user.
C6_Witness ==
    \E p, q \in VprIds :
        /\ Done(p) /\ Finalized(p) /\ Truthy(Calls(p)[1].user)
        /\ Done(q) /\ Calls(q) = <<UserCall(NoError, Null, "true")>>

\* C7: when the hook reports an error, the callback gets that error at
\* once; the validator is not invoked and no get or remove is issued.
C7_HookErrorStopsEarly ==
    \A p \in VprIds :
        vpr[p].herr # NoError
            => /\ Done(p)
               /\ Calls(p) = ErrorOnly(vpr[p].herr)
               /\ vpr[p].nValidator = 0
               /\ ~vpr[p].vdone
               /\ vpr[p].nGet = 0
               /\ vpr[p].nRemove = 0

C7_Witness ==
    \E p \in VprIds :
        /\ vpr[p].herr = "HookError"
        /\ Done(p)
        /\ CacheGet(cache, 1) # Absent

\* C8: unless the validator succeeded, the hook reported isValid and a
\* request id was matched, the callback gets the validator's own result
\* (error, user, loggedOut) unchanged, the invocation issues no get and no
\* remove, and the step leaves the cache as it was.
C8_ForwardsValidatorResult ==
    /\ [](\A p \in VprIds :
            (vpr[p].vdone /\ ~(/\ vpr[p].verr = NoError
                               /\ vpr[p].isValid
                               /\ vpr[p].rid # NoRequestId))
                => /\ Done(p)
                   /\ Calls(p) = <<UserCall(vpr[p].verr, vpr[p].vuser,
                                            vpr[p].vlo)>>
                   /\ vpr[p].nGet = 0
                   /\ vpr[p].nRemove = 0)
    /\ [][\A p \in VprIds :
            (vpr[p].pc = "validator" /\ vpr'[p].pc = "done")
                => cache' = cache]_vars

\* The hook said isValid = false about a request whose entry is in the
\* cache, and the validator's user was forwarded.
C8_Witness ==
    \E p \in VprIds :
        /\ cfg.hasHook
        /\ Done(p)
        /\ ~vpr[p].isValid
        /\ vpr[p].rid # NoRequestId
        /\ CacheGet(cache, vpr[p].rid) # Absent
        /\ Calls(p) = <<UserCall(NoError, [name |-> "Jane"], "false")>>

\* An invocation that delivered a success for a validated user after its
\* entry was read and removed.
MergedUser(p) ==
    /\ Done(p)
    /\ vpr[p].getRes = "ok"
    /\ vpr[p].remRes = "ok"
    /\ Truthy(vpr[p].vuser)

\* C9: on a successful finalize the delivered user is the validator's user,
\* its fields unchanged, plus the field extraLoginRequestParams holding the
\* stored entry without RequestXML, createdAt and idpIssuer; the cache no
\* longer holds the entry.
C9_FinalizeDeliversMergedUser ==
    \A p \in VprIds :
        MergedUser(p) =>
            LET stored == gar[vpr[p].rid].saved
                params == [k \in DOMAIN stored
                                   \ {"RequestXML", "createdAt", "idpIssuer"}
                             |-> stored[k]]
                user   == vpr[p].vuser
                call   == Calls(p)[1]
            IN  /\ Len(Calls(p)) = 1
                /\ call.err = NoError
                /\ call.loggedOut = vpr[p].vlo
                /\ DOMAIN call.user
                      = DOMAIN user \cup {"extraLoginRequestParams"}
                /\ \A k \in DOMAIN user \ {"extraLoginRequestParams"} :
                      call.user[k] = user[k]
                /\ call.user.extraLoginRequestParams = params
                /\ CacheGet(cache, vpr[p].rid) = Absent

\* The scenario: extraParams {clientId: 42}, user {name: Jane}.
C9_Witness ==
    \E p \in VprIds :
        /\ MergedUser(p)
        /\ gar[vpr[p].rid].savedExtra = [clientId |-> "42"]
        /\ Calls(p) = <<UserCall(NoError,
                                 [name |-> "Jane",
                                  extraLoginRequestParams |->
                                      [clientId |-> "42"]],
                                 "false")>>
        /\ CacheGet(cache, vpr[p].rid) = Absent

\* The extra parameters save was given for request r, as key/value pairs.
ExtraParamsOf(r) ==
    IF Truthy(gar[r].savedExtra) THEN gar[r].savedExtra ELSE <<>>

\* C10 (as claimed): on a successful finalize the final user's fields are
\* the validator's user's fields overlaid with the key/value pairs of
\* extraParams, and RequestXML, createdAt and idpIssuer are no fields of it.
C10_MergeOverlaysExtraParams ==
    \A p \in VprIds :
        MergedUser(p) =>
            LET extra == ExtraParamsOf(vpr[p].rid)
                user  == vpr[p].vuser
                final == Calls(p)[1].user
            IN  /\ DOMAIN final = DOMAIN user \cup DOMAIN extra
                /\ \A k \in DOMAIN extra : final[k] = extra[k]
                /\ \A k \in DOMAIN user \ DOMAIN extra : final[k] = user[k]
                /\ DOMAIN final \cap BookkeepingKeys = {}

\* C10 (amended): on a successful finalize the final user's fields are the
\* validator's user's fields overlaid with the single field
\* extraLoginRequestParams, whose value holds the key/value pairs of
\* extraParams; no key of extraParams becomes a field of the final user,
\* and RequestXML, createdAt and idpIssuer are neither keys of
\* extraLoginRequestParams nor fields added to the user.
C10_MergeNestsExtraParams ==
    \A p \in VprIds :
        MergedUser(p) =>
            LET extra == ExtraParamsOf(vpr[p].rid)
                user  == vpr[p].vuser
                final == Calls(p)[1].user
                added == DOMAIN final \ DOMAIN user
            IN  /\ added \subseteq {"extraLoginRequestParams"}
                /\ "extraLoginRequestParams" \in DOMAIN final
                /\ DOMAIN extra \cap added = {}
                /\ \A k \in DOMAIN user \ {"extraLoginRequestParams"} :
                      k \in DOMAIN final /\ final[k] = user[k]
                /\ final.extraLoginRequestParams = extra
                /\ DOMAIN final.extraLoginRequestParams \cap BookkeepingKeys
                      = {}
                /\ added \cap BookkeepingKeys = {}

\* The extra parameters name a field the user has too: the user keeps its
\* own.
C10_Witness ==
    \E p \in VprIds :
        /\ MergedUser(p)
        /\ ExtraParamsOf(vpr[p].rid) = [name |-> "Bob"]
        /\ Calls(p)[1].user.name = "Jane"
        /\ Calls(p)[1].user.extraLoginRequestParams.name = "Bob"

-----------------------------------------------------------------------------
(* Claims about the request mapper, the step order, the key-binding headers
   and the hook-less configuration *)

\* Invocation g has no mapper output: no mapper, or one that fails to decode.
MapperFails(g) ==
    gar[g].req # Undefined /\ (~cfg.hasMapper \/ ~gar[g].req.mapped.ok)

\* C13: when the requestMapper is absent or fails to decode, a request whose
\* XML was shaped is saved once, with the shaped XML and no extra parameters;
\* the shaped XML reaches the callback when the save succeeds; and the only
\* errors a callback ever gets are those of generation, shaping and saving,
\* never the mapper's.
C13_MapperFailureSwallowed ==
    \A g \in GarIds :
        MapperFails(g) =>
            /\ Len(gar[g].cb) <= 1
            /\ \A i \in DOMAIN gar[g].cb :
                  gar[g].cb[i].err \in
                      {NoError, "GenerateError", "TamperError", "CacheWriteError"}
            /\ (gar[g].nTamper = 1 /\ gar[g].pc = "done" /\ gar[g].nSave = 0)
                  => gar[g].cb = <<XmlCall("TamperError", Undefined)>>
            /\ gar[g].nSave <= 1
            /\ gar[g].nSave = 1
                  => /\ gar[g].savedExtra = Undefined
                     /\ gar[g].xml = TamperedXml(GeneratedXml(g))
            /\ gar[g].saveRes = "ok"
                  => /\ gar[g].cb = <<XmlCall(NoError, TamperedXml(GeneratedXml(g)))>>
                     /\ DOMAIN gar[g].saved = BookkeepingKeys
                     /\ cache[g] = gar[g].saved

\* A mapper that fails to decode, and the shaped XML delivered all the same.
C13_Witness ==
    /\ cfg.hasMapper
    /\ \E g \in GarIds :
          /\ gar[g].req # Undefined
          /\ ~gar[g].req.mapped.ok
          /\ gar[g].saveRes = "ok"
          /\ gar[g].savedExtra = Undefined
          /\ gar[g].cb = <<XmlCall(NoError, TamperedXml(GeneratedXml(g)))>>

\* C18: the steps keep their order in every execution.  In
\* generateAuthorizeRequest save is issued only once the XML has been
\* shaped, and the XML reaches the callback only once save has succeeded.
\* In validatePostResponse get is issued only once the validator has
\* reported success, remove only once get has succeeded, and an invocation
\* that issued get delivers a success only once remove has succeeded.
C18_LinearStepOrder ==
    /\ \A g \in GarIds :
          /\ gar[g].nSave > 0 => gar[g].xml = TamperedXml(GeneratedXml(g))
          /\ \A i \in DOMAIN gar[g].cb :
                gar[g].cb[i].xml # Undefined => gar[g].saveRes = "ok"
    /\ \A p \in VprIds :
          /\ vpr[p].nGet > 0 => (vpr[p].vdone /\ vpr[p].verr = NoError)
          /\ vpr[p].nRemove > 0 => vpr[p].getRes = "ok"
          /\ \A i \in DOMAIN vpr[p].cb :
                (vpr[p].nGet > 0 /\ vpr[p].cb[i].err = NoError)
                    => vpr[p].remRes = "ok"

\* C19: the key-binding headers never fail a request.  Whenever the SAML
\* library has generated the XML and a tamperer is configured, the tamperer
\* is invoked: with the decoded public key and no hash algorithm when the
\* key header decodes and the algorithm header is missing or unsupported,
\* with no key-binding parameters when the key header is absent or does not
\* decode.  The only errors delivered are those of generation, shaping and
\* saving.
C19_KeyBindingFallback ==
    \A g \in GarIds :
        LET headers == gar[g].req.headers
        IN  /\ (cfg.hasTamperer /\ gar[g].xml # Undefined) => gar[g].nTamper = 1
            /\ gar[g].nTamper = 1 =>
                  /\ (headers.pubKey = "jwk-token"
                         /\ headers.hashAlgo \notin {"sha256", "sha384", "sha512"})
                     => gar[g].lollipopParams =
                            [hashAlgorithm |-> NoHashAlgorithm,
                             pubKey |-> [kty |-> "EC"]]
                  /\ headers.pubKey \in {AbsentHeader, "not-a-jwk"}
                     => gar[g].lollipopParams = Undefined
            /\ \A i \in DOMAIN gar[g].cb :
                  gar[g].cb[i].err \in
                      {NoError, "GenerateError", "TamperError", "CacheWriteError"}

\* A decodable key with an unsupported algorithm, another request with a key
\* that does not decode, and the shaped XML delivered for both.
C19_Witness ==
    \E g, h \in GarIds :
        /\ gar[g].req # Undefined /\ gar[h].req # Undefined
        /\ gar[g].req.headers = [pubKey |-> "jwk-token", hashAlgo |-> "md5"]
        /\ gar[h].req.headers.pubKey = "not-a-jwk"
        /\ gar[g].lollipopParams =
               [hashAlgorithm |-> NoHashAlgorithm, pubKey |-> [kty |-> "EC"]]
        /\ gar[h].nTamper = 1 /\ gar[h].lollipopParams = Undefined
        /\ gar[g].cb = <<XmlCall(NoError, TamperedXml(GeneratedXml(g)))>>
        /\ gar[h].cb = <<XmlCall(NoError, TamperedXml(GeneratedXml(h)))>>

\* C20: with no pre-validation hook configured, an invocation calls the
\* validator once, hands its result to the caller's callback as it is, and
\* issues no get and no remove; no step ever removes or alters an entry of
\* the cache.
C20_NoHookNoCacheAccess ==
    /\ [](~cfg.hasHook =>
            \A p \in VprIds :
                /\ vpr[p].nValidator = (IF vpr[p].pc = "idle" THEN 0 ELSE 1)
                /\ vpr[p].nGet = 0 /\ vpr[p].getRes = "none"
                /\ vpr[p].nRemove = 0 /\ vpr[p].remRes = "none"
                /\ vpr[p].pc \in {"idle", "validator", "done"}
                /\ vpr[p].pc = "done"
                      => vpr[p].cb = <<UserCall(vpr[p].verr, vpr[p].vuser,
                                                vpr[p].vlo)>>
                /\ vpr[p].pc # "done" => vpr[p].cb = <<>>)
    /\ [][~cfg.hasHook =>
            \A id \in RequestIds :
                cache[id] # Absent => cache'[id] = cache[id]]_vars

\* No hook, an entry in the cache, and two responses handled: one with a
\* user, one rejected; the entry is still there.
C20_Witness ==
    /\ ~cfg.hasHook
    /\ \E id \in RequestIds : cache[id] # Absent
    /\ \E p, q \in VprIds :
          /\ vpr[p].pc = "done" /\ vpr[p].cb[1].err = NoError
          /\ Truthy(vpr[p].cb[1].user)
          /\ vpr[q].pc = "done" /\ vpr[q].cb[1].err = "ValidationRejected"

\* The hook matched a request, and the validator reported neither an error
\* nor a user.
MatchedWithoutUser(p) ==
    /\ cfg.hasHook
    /\ vpr[p].herr = NoError
    /\ vpr[p].isValid
    /\ vpr[p].rid # NoRequestId
    /\ vpr[p].vdone
    /\ vpr[p].verr = NoError
    /\ ~Truthy(vpr[p].vuser)

\* C21: when the hook matched a request and the validator reports no error
\* and no user, the entry is read, and removed once it has been read; once
\* it has been removed the callback gets no error, the absent user as the
\* validator gave it and the validator's loggedOut value, and the cache no
\* longer holds the entry.  No callback of such an invocation ever carries
\* a user object.
C21_AbsentUserStillConsumes ==
    \A p \in VprIds :
        MatchedWithoutUser(p) =>
            /\ vpr[p].nGet = 1
            /\ vpr[p].getRes = "ok" => vpr[p].nRemove = 1
            /\ vpr[p].getRes # "ok" => vpr[p].nRemove = 0
            /\ Done(p) => vpr[p].getRes # "none"
            /\ vpr[p].remRes = "ok"
                  => /\ Done(p)
                     /\ Calls(p) = <<UserCall(NoError, vpr[p].vuser, vpr[p].vlo)>>
                     /\ CacheGet(cache, vpr[p].rid) = Absent
            /\ \A i \in DOMAIN Calls(p) : ~Truthy(Calls(p)[i].user)

\* A logout response for a matched request: its entry read and removed, and
\* null delivered as the user.
C21_Witness ==
    \E p \in VprIds :
        /\ MatchedWithoutUser(p)
        /\ vpr[p].getRes = "ok"
        /\ vpr[p].remRes = "ok"
        /\ Truthy(gar[vpr[p].rid].savedExtra)
        /\ Calls(p) = <<UserCall(NoError, Null, "true")>>

\* C22: an invocation of generateAuthorizeRequest never invokes its
\* callback twice and has invoked it once when it is over.  When generation
\* yields no XML the callback gets the generation error, the tamperer is
\* not invoked and no save is issued; when shaping fails the callback gets
\* the shaping error and no save is issued.
C22_OneCallbackPerRequest ==
    \A g \in GarIds :
        /\ Len(gar[g].cb) <= 1
        /\ gar[g].pc = "done" <=> Len(gar[g].cb) = 1
        /\ gar[g].genRes \notin {"none", "ok"}
              => /\ gar[g].cb = <<XmlCall(gar[g].genRes, Undefined)>>
                 /\ gar[g].genRes = "GenerateError"
                 /\ gar[g].nTamper = 0 /\ gar[g].tamperRes = "none"
                 /\ gar[g].nSave = 0 /\ gar[g].saveRes = "none"
                 /\ CacheGet(cache, g) = Absent
        /\ gar[g].tamperRes \notin {"none", "ok"}
              => /\ gar[g].cb = <<XmlCall(gar[g].tamperRes, Undefined)>>
                 /\ gar[g].tamperRes = "TamperError"
                 /\ gar[g].nTamper = 1
                 /\ gar[g].nSave = 0 /\ gar[g].saveRes = "none"
                 /\ CacheGet(cache, g) = Absent

\* With a tamperer configured: one request whose generation failed, one
\* whose shaping failed, each with its error delivered.
C22_Witness ==
    /\ cfg.hasTamperer
    /\ \E g, h \in GarIds :
          /\ gar[g].genRes = "GenerateError"
          /\ gar[g].cb = <<XmlCall("GenerateError", Undefined)>>
          /\ gar[h].tamperRes = "TamperError"
          /\ gar[h].cb = <<XmlCall("TamperError", Undefined)>>

-----------------------------------------------------------------------------
(* Claims about utils/saml *)

\* A call of fn has returned.
Returned(fn) == util.fn = fn /\ util.out # <<>>

LevelUris ==
    {"https://www.spid.gov.it/SpidL1",
     "https://www.spid.gov.it/SpidL2",
     "https://www.spid.gov.it/SpidL3"}

\* The decoded response a call hands to the resolver.
ResponseOf(call) ==
    IF call.fn = "getAuthSalmOptions" THEN call.args.decodedResponse
    ELSE IF call.args.req.body = Undefined THEN Undefined
    ELSE call.args.req.body.SAMLResponse.base64

\* The response names one of the three levels.
KnownContext(response) ==
    /\ response # Undefined
    /\ Len(response.classRefs) > 0
    /\ response.classRefs[1].chars \in LevelUris

\* The selector is given and is none of the three levels.
Unmappable(authLevel) ==
    authLevel \notin {AbsentParam, "SpidL1", "SpidL2", "SpidL3"}

\* C11: whenever the request's authLevel is a key of the level table, the
\* resolver returns that table entry as authnContext, with forceAuthn false
\* for SpidL1 and true for the other levels, whatever the decoded response
\* holds.
C11_SelectorTakesPrecedence ==
    (Returned("getAuthSalmOptions")
        /\ util.args.req.query.authLevel \in {"SpidL1", "SpidL2", "SpidL3"})
    => LET authLevel == util.args.req.query.authLevel
       IN  util.out[1] =
               Some([authnContext |-> SPID_LEVELS[authLevel],
                     forceAuthn |-> authLevel # "SpidL1"])

\* A call with the lowest level selected and a response naming the highest.
C11_Witness ==
    /\ Returned("getAuthSalmOptions")
    /\ util.args.req.query.authLevel = "SpidL1"
    /\ KnownContext(util.args.decodedResponse)
    /\ util.args.decodedResponse.classRefs[1].chars = "https://www.spid.gov.it/SpidL3"
    /\ util.out[1] = Some([authnContext |-> "https://www.spid.gov.it/SpidL1",
                           forceAuthn |-> FALSE])

\* C12 as stated: an authLevel that is given but not in the level table
\* makes the resolver return none, for every decoded response.
C12_UnmappableGivesNone ==
    (Returned("getAuthSalmOptions") /\ Unmappable(util.args.req.query.authLevel))
    => util.out[1] = None

\* C12: an authLevel that is given but not in the level table is treated as
\* if it were absent: the resolver returns the level the decoded response
\* names, if it names one of the three, and none otherwise; getSamlOptions
\* calls done with no error and the service-provider defaults, overlaid by
\* that level if there is one.
C12_UnmappableTreatedAsAbsent ==
    LET response == ResponseOf(util)
        context  == response.classRefs[1].chars
    IN  /\ (Returned("getAuthSalmOptions")
               /\ Unmappable(util.args.req.query.authLevel))
           => util.out[1] =
                  IF KnownContext(response)
                  THEN Some([authnContext |-> context,
                             forceAuthn |-> context # "https://www.spid.gov.it/SpidL1"])
                  ELSE None
        /\ (Returned("getSamlOptions")
               /\ Unmappable(util.args.req.query.authLevel))
           => /\ util.out[1].err = NoError
              /\ util.out[1].options.issuer = SpDefaults.issuer
              /\ util.out[1].options.authnContext =
                     IF KnownContext(response) THEN context
                     ELSE SpDefaults.authnContext
              /\ util.out[1].options.forceAuthn =
                     IF KnownContext(response)
                     THEN context # "https://www.spid.gov.it/SpidL1"
                     ELSE SpDefaults.forceAuthn

\* An unmappable selector with a response naming SpidL2: done is called
\* with no error and with that level.
C12_Witness ==
    /\ Returned("getSamlOptions")
    /\ util.args.req.query.authLevel = "SpidL9"
    /\ KnownContext(ResponseOf(util))
    /\ util.out[1].err = NoError
    /\ util.out[1].options.authnContext = "https://www.spid.gov.it/SpidL2"

\* The tamperer has been applied n times or more.
Shaped(n) == util.fn = "getAuthorizeRequestTamperer" /\ Len(util.out) >= n

\* C14: shaping is idempotent: when the tamperer has shaped a request and is
\* applied to the XML it returned, it returns that same XML.
C14_ShapingIdempotent ==
    Shaped(2) => util.out[2] = util.out[1]

C16_NoKeyNoMetadata ==
    Returned("getMetadataTamperer") =>
        LET out == util.out[1]
        IN  /\ util.args.config.privateCert \in {AbsentParam, ""}
               => /\ ~out.ok
                  /\ DOMAIN out = {"ok", "error"}
                  /\ out.error =
                         "You must provide a private key to sign SPID service provider metadata."
            /\ out.ok
               => /\ out.value.metadata.sso.AuthnRequestsSigned = "true"
                  /\ out.value.metadata.sso.WantAssertionsSigned = "true"
                  /\ out.value.metadata.acs[1].attrs.index = "0"

\* Metadata with an empty private key: the configuration error.
C16_Witness ==
    /\ Returned("getMetadataTamperer")
    /\ util.args.config.privateCert = ""
    /\ util.args.generateXml.sso =
           [protocolSupportEnumeration |-> "urn:oasis:names:tc:SAML:2.0:protocol",
            AuthnRequestsSigned |-> "false", WantAssertionsSigned |-> "false"]
    /\ util.out[1] =
           [ok |-> FALSE,
            error |-> "You must provide a private key to sign SPID service provider metadata."]

\* C17: getEntrypointCerts returns the certificates and entry point of the
\* provider the entityID names; all providers' certificates and no entry
\* point when no entityID is given; none when an entityID is given that
\* names no provider.
C17_EntrypointCerts ==
    Returned("getEntrypointCerts") =>
        LET entityID == util.args.req.query.entityID
            idps     == util.args.idps
        IN  util.out[1] =
                IF entityID = AbsentParam
                THEN Some([cert |-> FlattenCerts(idps, 1), entryPoint |-> ""])
                ELSE IF entityID \in DOMAIN idps
                THEN Some([cert |-> idps[entityID].cert,
                           entryPoint |-> idps[entityID].entryPoint])
                ELSE None

=============================================================================
